---- MODULE Spec2Model ----
(***************************************************************************)
(* A model of the Zotero FastAPI proxy (src/main.py):                      *)
(*   - the in-memory LRU+TTL cache _Cache, used sequentially (Spec) and by *)
(*     concurrently served requests (SpecConc);                            *)
(*   - the HTTP handlers that walk the upstream API: /search, /items/{k}   *)
(*     and POST /items/batch (SpecHttp, SpecHttpLive);                     *)
(*   - the phrase search in a PDF attachment,                              *)
(*     GET /attachments/{key}/search (SpecPdf).                            *)
(***************************************************************************)
EXTENDS Integers, Sequences, FiniteSets, TLC

----------------------------------------------------------------------------
(* Bounds of the model and configuration values. *)

\* Cache keys are the integers 1..NumKeys (the code's keys are strings).
NumKeys == 3
\* Number of cache operations of one sequential behaviour.
MaxOps == 4
\* CACHE_MAX_ITEMS and CACHE_TTL_SECONDS are read from the environment
\* (defaults 32 and 3600); the model runs a small configuration.
CACHE_MAX_ITEMS == 2
CACHE_TTL_SECONDS == 1
\* time.time() is read as an integer clock in 0..MaxTime: long enough for an
\* entry set at the start to expire.
MaxTime == CACHE_TTL_SECONDS + 1
\* Worker threads of the server's pool that serve requests at the same time,
\* and the number of requests they serve in one behaviour.
NumThreads == 2
MaxRequests == 3
\* Number of top-level records a library lists one by one, and number of
\* keys of a batch payload.
MaxTail == 2
MaxBatchKeys == 2
\* Number of pages of a PDF file.
MaxPages == 3

Keys == 1..NumKeys
Vals == {"v1", "v2"}
None == "None"

----------------------------------------------------------------------------
(* Python list helpers. *)

\* `x in lst`
InList(lst, x) == \E i \in 1..Len(lst) : lst[i] = x

\* index of the first occurrence of x in lst (x is in lst)
FirstIndex(lst, x) == CHOOSE i \in 1..Len(lst) : lst[i] = x /\ \A j \in 1..(i - 1) : lst[j] # x

\* `lst.remove(x)`: drops the first occurrence of x (x is in lst)
ListRemove(lst, x) ==
    LET i == FirstIndex(lst, x)
    IN  [j \in 1..(Len(lst) - 1) |-> IF j < i THEN lst[j] ELSE lst[j + 1]]

\* `del d[k]`
DictDel(d, k) == [x \in (DOMAIN d) \ {k} |-> d[x]]

\* `d[k] = v`
DictPut(d, k, v) == [x \in (DOMAIN d) \cup {k} |-> IF x = k THEN v ELSE d[x]]

----------------------------------------------------------------------------
(* _Cache: the operations as functions of the cache state (st = _store,   *)
(* ord = _order) returning the new state (and the value returned).        *)

Cache_delete_KeepOrder(st, ord, key) ==
    [store |-> IF key \in DOMAIN st THEN DictDel(st, key) ELSE st,
     order |-> ord]

\* _Cache.delete
Cache_delete(st, ord, key) ==
    [store |-> IF key \in DOMAIN st THEN DictDel(st, key) ELSE st,
     order |-> IF InList(ord, key) THEN ListRemove(ord, key) ELSE ord]

Cache_get_NoTouch(st, ord, key, now) ==
    IF key \notin DOMAIN st
    THEN [store |-> st, order |-> ord, ret |-> None]
    ELSE IF now - st[key].ts > CACHE_TTL_SECONDS
         THEN [store |-> Cache_delete(st, ord, key).store,
               order |-> Cache_delete(st, ord, key).order,
               ret   |-> None]
         ELSE [store |-> st, order |-> ord, ret |-> st[key].val]

Cache_get_Refresh(st, ord, key, now) ==
    IF key \notin DOMAIN st
    THEN [store |-> st, order |-> ord, ret |-> None]
    ELSE IF now - st[key].ts > CACHE_TTL_SECONDS
         THEN [store |-> Cache_delete(st, ord, key).store,
               order |-> Cache_delete(st, ord, key).order,
               ret   |-> None]
         ELSE [store |-> DictPut(st, key, [ts |-> now, val |-> st[key].val]),
               order |-> Append(IF InList(ord, key) THEN ListRemove(ord, key) ELSE ord, key),
               ret   |-> st[key].val]

\* _Cache.get
Cache_get(st, ord, key, now) ==
    IF key \notin DOMAIN st
    THEN [store |-> st, order |-> ord, ret |-> None]
    ELSE IF now - st[key].ts > CACHE_TTL_SECONDS
         THEN [store |-> Cache_delete(st, ord, key).store,
               order |-> Cache_delete(st, ord, key).order,
               ret   |-> None]
         ELSE [store |-> st,
               order |-> Append(IF InList(ord, key) THEN ListRemove(ord, key) ELSE ord, key),
               ret   |-> st[key].val]

RECURSIVE Evict_AllowOneOver(_, _)
Evict_AllowOneOver(st, ord) ==
    IF Len(ord) > CACHE_MAX_ITEMS + 1
    THEN Evict_AllowOneOver(IF Head(ord) \in DOMAIN st THEN DictDel(st, Head(ord)) ELSE st,
                            Tail(ord))
    ELSE [store |-> st, order |-> ord]

\* the eviction loop of _Cache.set: `while len(self._order) > self.max_items`
RECURSIVE Evict(_, _)
Evict(st, ord) ==
    IF Len(ord) > CACHE_MAX_ITEMS
    THEN Evict(IF Head(ord) \in DOMAIN st THEN DictDel(st, Head(ord)) ELSE st, Tail(ord))
    ELSE [store |-> st, order |-> ord]

Cache_set_KeepOld(st, ord, key, val, now) ==
    IF key \in DOMAIN st
    THEN [store |-> DictPut(st, key, [ts |-> now, val |-> st[key].val]),
          order |-> Append(IF InList(ord, key) THEN ListRemove(ord, key) ELSE ord, key)]
    ELSE Evict(DictPut(st, key, [ts |-> now, val |-> val]), Append(ord, key))

\* _Cache.set
Cache_set(st, ord, key, val, now) ==
    IF key \in DOMAIN st
    THEN [store |-> DictPut(st, key, [ts |-> now, val |-> val]),
          order |-> Append(IF InList(ord, key) THEN ListRemove(ord, key) ELSE ord, key)]
    ELSE Evict(DictPut(st, key, [ts |-> now, val |-> val]), Append(ord, key))

\* _Cache.stats()["current_items"]
Cache_stats(st) == Cardinality(DOMAIN st)

----------------------------------------------------------------------------
(* The HTTP handlers and the upstream API they call.                       *)

\* `chunk = 100` of faceted_search; the clamps of limit and max_scan;
\* the slice item_keys[:50] of batch_items
chunk == 100
LimitMin == 1
LimitMax == 50
MaxScanMin == 100
MaxScanMax == 10000
BatchMax == 50
\* the cap on PDF checks the specification calls pdf_check_top_n (its
\* example value); faceted_search has no such parameter
pdf_check_top_n == 5

\* status codes the upstream answers with, and the bodies of its answers
Statuses == {200, 204, 404, 503}
Bodies == {"body1", "body2"}

\* `r.status_code != 200`: the handlers raise HTTPException on it
NotOk_Only5xx(status) == status >= 500

NotOk(status) == status # 200

\* what the claims call a failed upstream call: a non-2xx status
Non2xx(status) == status < 200 \/ status > 299

Min(a, b) == IF a < b THEN a ELSE b
Max(a, b) == IF a > b THEN a ELSE b

\* attributes of a top-level record with respect to the query: whether it
\* passes the itemType/tag/title/creator/year filters, whether its children
\* include a PDF attachment, what _score_match_free gives it, and its title
\* (titles compare as the numbers do)
Scores == 0..2
Titles == 1..2
TailRecs == [pass : {TRUE}, pdf : {TRUE}, score : Scores, title : Titles]

\* the upstream library, in the order the listing returns it: nchild child
\* records (attachments, notes), then nbulk top-level records, then the
\* records of tail.  An endless library never runs out: every page of chunk
\* records it lists holds chunk - 1 child records and then one top-level
\* record.
LibSize(l) == l.nchild + l.nbulk + Len(l.tail)

\* the raw record at offset i (from 0) of library l; its key is i + 1
LibItem(l, i) ==
    IF l.endless
    THEN LET j == i \div chunk
         IN  [key |-> i + 1, top |-> (i % chunk = chunk - 1), pass |-> (j % 7 # 3),
              pdf |-> (j % 4 # 1), score |-> j % 3, title |-> 1 + ((j \div 3) % 2)]
    ELSE IF i < l.nchild
    THEN [key |-> i + 1, top |-> FALSE, pass |-> TRUE, pdf |-> FALSE, score |-> 0, title |-> 1]
    ELSE IF i < l.nchild + l.nbulk
    THEN LET j == i - l.nchild
         IN  [key |-> i + 1, top |-> TRUE, pass |-> (j % 7 # 3), pdf |-> (j % 4 # 1),
              score |-> j % 3, title |-> 1 + ((j \div 3) % 2)]
    ELSE LET r == l.tail[i - l.nchild - l.nbulk + 1]
         IN  [key |-> i + 1, top |-> TRUE, pass |-> r.pass, pdf |-> r.pdf,
              score |-> r.score, title |-> r.title]

\* the upstream's answer to GET /items?limit=&start=: the records at offsets
\* start .. start + limit - 1
UpstreamPage(l, start, limit) ==
    [k \in 1..(IF l.endless THEN limit ELSE Max(0, Min(limit, LibSize(l) - start))) |->
        LibItem(l, start + k - 1)]

\* _is_top_level_item
IsTopLevelItem(it) == it.top

\* Python's [it for it in items if _is_top_level_item(it)]: the top-level
\* records of lst, in their order
FilterTop(lst) ==
    LET tops == {i \in 1..Len(lst) : IsTopLevelItem(lst[i])}
        before == [i \in 1..Len(lst) |-> Cardinality({j \in tops : j < i})]
    IN  [k \in 1..Cardinality(tops) |-> lst[CHOOSE i \in tops : before[i] = k - 1]]

\* list_items(limit, start, top=True) on a 200 answer: limit and start are
\* clamped, the page is fetched and the child records are filtered out
ListItems(l, limit, start) ==
    FilterTop(UpstreamPage(l, Max(0, start), Max(1, Min(100, limit))))

KeyGE_ScoreOnly(a, b) == a.score >= b.score

\* the sort key of faceted_search: (score, title), compared as tuples
KeyGE(a, b) == a.score > b.score \/ (a.score = b.score /\ a.title >= b.title)

\* the place of candidate i after a stable descending sort: after every
\* candidate of greater key and every earlier candidate of equal key
SortRank(cands) ==
    [i \in 1..Len(cands) |->
        1 + Cardinality({j \in 1..Len(cands) :
                \/ ~KeyGE(cands[i], cands[j])
                \/ (j < i /\ KeyGE(cands[i], cands[j]) /\ KeyGE(cands[j], cands[i]))})]

\* the first n elements of candidates.sort(key=..., reverse=True): Python's
\* sort is stable, and with reverse=True elements of equal key keep their
\* original order
SortDesc(cands, n) ==
    LET rank == SortRank(cands)
    IN  [p \in 1..n |-> cands[CHOOSE i \in 1..Len(cands) : rank[i] = p]]

\* the results loop: candidates[: limit * 4], stopping at limit results
Results(cands, limit) ==
    SortDesc(cands, Min(Len(cands), Min(limit * 4, limit)))

\* the candidate appended for record it: scored when a free-text term was
\* given (and dropped when the score is 0), (1, "filters_only") otherwise
Candidate(it, free) ==
    IF free
    THEN IF it.score <= 0 THEN << >>
         ELSE <<[score |-> it.score, title |-> it.title, key |-> it.key,
                 reason |-> "scored"]>>
    ELSE <<[score |-> 1, title |-> it.title, key |-> it.key, reason |-> "filters_only"]>>

NextScanned_Stuck(sc) == sc.scanned

\* `scanned += len(batch)`
NextScanned(sc) == sc.scanned + Len(sc.batch)

NextStart_ByBatchLen(sc) == sc.start + Len(sc.batch)

\* `start += chunk`
NextStart(sc) == sc.start + chunk

----------------------------------------------------------------------------
(* Phrase search in a PDF (_pdf_find_phrase).  A text is a sequence of     *)
(* characters; positions count from 1 here and from 0 in the code.         *)

\* the characters of the texts are the letters a and b in both cases, the
\* blank, and the line feed that joins the pages
Blank == " "
LineFeed == "\n"

\* re.IGNORECASE compares the characters folded to one case
Lower(c) == IF c = "A" THEN "a" ELSE IF c = "B" THEN "b" ELSE c

\* str.strip(): the text without its leading and trailing whitespace
IsSpace(c) == c \in {Blank, LineFeed}
Strip(s) ==
    LET solid == {i \in 1..Len(s) : ~IsSpace(s[i])}
    IN  IF solid = {} THEN << >>
        ELSE SubSeq(s, CHOOSE i \in solid : \A j \in solid : i <= j,
                       CHOOSE i \in solid : \A j \in solid : i >= j)

\* "\n\n".join(texts)
RECURSIVE Join(_)
Join(texts) ==
    IF Len(texts) = 0 THEN << >>
    ELSE IF Len(texts) = 1 THEN texts[1]
    ELSE texts[1] \o <<LineFeed, LineFeed>> \o Join(Tail(texts))

\* re.escape(phrase) matches text at position p, ignoring case
MatchAt(text, phrase, p) ==
    /\ p + Len(phrase) - 1 <= Len(text)
    /\ \A k \in 1..Len(phrase) : Lower(text[p + k - 1]) = Lower(phrase[k])

\* re.finditer: the positions of the matches from position `from` on, left
\* to right, each search starting where the previous match ended
RECURSIVE Finditer(_, _, _)
Finditer(text, phrase, from) ==
    IF from + Len(phrase) - 1 > Len(text) THEN << >>
    ELSE IF MatchAt(text, phrase, from)
         THEN <<from>> \o Finditer(text, phrase, from + Len(phrase))
         ELSE Finditer(text, phrase, from + 1)

\* Python's text[start:end]: a negative index counts from the end of the
\* text, both indices are then clipped to 0..len(text), and the slice is
\* empty when start is not before end
SliceIndex(text, i) == IF i < 0 THEN Max(0, i + Len(text)) ELSE Min(i, Len(text))
Slice(text, start, end) ==
    IF SliceIndex(text, start) < SliceIndex(text, end)
    THEN SubSeq(text, SliceIndex(text, start) + 1, SliceIndex(text, end))
    ELSE << >>

\* coarse_text[start:end].strip() around the match at position p (m.start()
\* is p - 1); context_chars may be negative
Context(text, phrase, p, context_chars) ==
    LET start == Max(0, (p - 1) - context_chars)
        end == Min(Len(text), (p - 1) + Len(phrase) + context_chars)
    IN  Strip(Slice(text, start, end))

\* `"page": None` of a hit (pages count from 1)
NoPage == 0

\* the first loop: one hit per match until len(hits) >= max_hits
CoarseHits(text, phrase, max_hits, context_chars) ==
    LET ms == Finditer(text, phrase, 1)
    IN  [i \in 1..Min(Len(ms), Max(0, max_hits)) |->
            [context |-> Context(text, phrase, ms[i], context_chars), page |-> NoPage]]

RECURSIVE RectPages_Descending(_, _)
RectPages_Descending(rects, n) ==
    IF n = 0 THEN << >>
    ELSE [i \in 1..rects[n] |-> n] \o RectPages_Descending(rects, n - 1)

\* the pages of the rectangles the second loop walks through: for pidx in
\* range(pages_to_scan), for each rectangle of the page, pidx + 1
RECURSIVE RectPages(_, _)
RectPages(rects, n) ==
    IF n = 0 THEN << >>
    ELSE RectPages(rects, n - 1) \o [i \in 1..rects[n] |-> n]

\* the second loop: the hits take the pages of the rectangles in turn, and
\* the hits left over keep page None (NoPage)
Enrich(hits, rects, n) ==
    LET rp == RectPages(rects, n)
    IN  [i \in 1..Len(hits) |->
            IF i <= Len(rp) THEN [hits[i] EXCEPT !.page = rp[i]] ELSE hits[i]]

----------------------------------------------------------------------------
VARIABLES
    store,   \* _Cache._store: key -> [ts, val]
    order,   \* _Cache._order: keys, least recently used first
    clock,   \* the value time.time() returns
    nops,    \* number of cache operations completed
    last,    \* the most recent completed cache operation and what it returned
    stamp,   \* per stored key, the number of the last operation that accessed it
    tpc,     \* per request thread, the statement of _Cache it is about to run
    tloc,    \* per request thread, its local variables
    nreq,    \* number of requests started on the thread pool
    lib,     \* the upstream library the proxy reads
    req,     \* the HTTP request being served
    hpc,     \* where the handler of the request is
    scan,    \* faceted_search's locals: start, scanned, batch, candidates
    bat,     \* batch_items' locals: position in item_keys, results
    up,      \* the upstream calls made so far, and the first that failed
    resp,    \* the HTTP response of the request
    pdf      \* the file of the attachment: its pages' texts, and the numbers of
             \* rectangles search_for returned for the pages

cacheVars == <<store, order, clock>>
histVars == <<nops, last, stamp>>
concVars == <<tpc, tloc, nreq>>
httpVars == <<lib, req, hpc, scan, bat, up, resp, pdf>>
vars == <<store, order, clock, nops, last, stamp, tpc, tloc, nreq,
          lib, req, hpc, scan, bat, up, resp, pdf>>

NoOp == [op |-> "none", key |-> 0, val |-> None, ret |-> None,
         evicted |-> {}, afterSet |-> FALSE]

Threads == 1..NumThreads

NoLocals == [key |-> 0, now |-> 0, ts |-> 0, val |-> None, oldest |-> 0, exc |-> "", ret |-> None]

\* no request is being served
ConcIdle ==
    /\ tpc = [t \in Threads |-> "idle"]
    /\ tloc = [t \in Threads |-> NoLocals]
    /\ nreq = 0

NoLib == [nchild |-> 0, nbulk |-> 0, tail |-> << >>, endless |-> FALSE]
NoReq == [endpoint |-> "none"]
NoScan == [start |-> 0, scanned |-> 0, batch |-> << >>, idx |-> 0, candidates |-> << >>]
NoBat == [i |-> 0, stage |-> "", results |-> << >>]
NoUp == [pages |-> << >>, ncalls |-> 0, npdf |-> 0, failAt |-> 0, failStatus |-> 0, failBody |-> ""]
NoResp == [status |-> 0]
NoPdf == [pages |-> << >>, rects |-> << >>]

\* no HTTP request has arrived
HttpIdle ==
    /\ lib = NoLib
    /\ req = NoReq
    /\ hpc = "idle"
    /\ scan = NoScan
    /\ bat = NoBat
    /\ up = NoUp
    /\ resp = NoResp
    /\ pdf = NoPdf

\* the entries of st that are no longer in st2
Dropped(st, st2) == {[key |-> k, ts |-> st[k].ts] : k \in (DOMAIN st) \ (DOMAIN st2)}

\* _Cache.__init__, and the first reading of the clock
Init ==
    /\ store = << >>
    /\ order = << >>
    /\ clock = 0
    /\ nops = 0
    /\ last = NoOp
    /\ stamp = [k \in Keys |-> 0]
    /\ ConcIdle
    /\ HttpIdle

\* time passes between two calls
Tick ==
    /\ clock < MaxTime
    /\ clock' = clock + 1
    /\ UNCHANGED <<store, order, nops, last, stamp, concVars, httpVars>>

\* a call of _Cache.get(key)
Get ==
    /\ nops < MaxOps
    /\ \E key \in Keys :
         LET r == Cache_get(store, order, key, clock)
         IN  /\ store' = r.store
             /\ order' = r.order
             /\ last' = [op |-> "get", key |-> key, val |-> None,
                         ret |-> r.ret, evicted |-> Dropped(store, r.store),
                         afterSet |-> (last.op = "set" /\ last.key = key)]
             /\ stamp' = [k \in Keys |->
                            IF k \notin DOMAIN r.store THEN 0
                            ELSE IF k = key THEN nops + 1 ELSE stamp[k]]
    /\ nops' = nops + 1
    /\ UNCHANGED <<clock, concVars, httpVars>>

\* a call of _Cache.set(key, val)
Set ==
    /\ nops < MaxOps
    /\ \E key \in Keys, val \in Vals :
         LET r == Cache_set(store, order, key, val, clock)
         IN  /\ store' = r.store
             /\ order' = r.order
             /\ last' = [op |-> "set", key |-> key, val |-> val,
                         ret |-> None, evicted |-> Dropped(store, r.store), afterSet |-> FALSE]
             /\ stamp' = [k \in Keys |->
                            IF k \notin DOMAIN r.store THEN 0
                            ELSE IF k = key THEN nops + 1 ELSE stamp[k]]
    /\ nops' = nops + 1
    /\ UNCHANGED <<clock, concVars, httpVars>>

\* a call of _Cache.delete(key)
Delete ==
    /\ nops < MaxOps
    /\ \E key \in Keys :
         LET r == Cache_delete(store, order, key)
         IN  /\ store' = r.store
             /\ order' = r.order
             /\ last' = [op |-> "delete", key |-> key, val |-> None,
                         ret |-> None, evicted |-> Dropped(store, r.store), afterSet |-> FALSE]
             /\ stamp' = [k \in Keys |-> IF k \notin DOMAIN r.store THEN 0 ELSE stamp[k]]
    /\ nops' = nops + 1
    /\ UNCHANGED <<clock, concVars, httpVars>>

Next == Tick \/ Get \/ Set \/ Delete

Spec == Init /\ [][Next]_vars

----------------------------------------------------------------------------
(* The cache in sequential use: claims C1-C4. *)

\* a step that is one cache operation (not the passing of time)
OpStep == nops' = nops + 1

\* C1: set(k, v) immediately followed by get(k), the get reading the clock no
\* more than the TTL after the set did (the set's reading is the timestamp it
\* stored), returns exactly v, whatever the cache held before.
C1_SetThenGetReturnsValue ==
    [][(/\ OpStep
        /\ last.op = "set"
        /\ last'.op = "get"
        /\ last'.key = last.key
        /\ clock - store[last.key].ts <= CACHE_TTL_SECONDS) => last'.ret = last.val]_vars

\* a get that directly followed a set of its key, on a full cache, and hit
C1_Witness ==
    /\ last.op = "get"
    /\ last.afterSet
    /\ last.ret \in Vals
    /\ Cache_stats(store) = CACHE_MAX_ITEMS

\* the stored key whose last access (set or successful get) is the oldest
LeastRecentlyAccessed(st, stp) ==
    CHOOSE e \in DOMAIN st : \A k \in DOMAIN st : stp[e] <= stp[k]

\* C2: a set that inserts a new key into a full cache evicts exactly one
\* entry, the one whose last access (a set or a successful get) is the
\* oldest; every other entry, a touched one included, is still present.
C2_EvictsLeastRecentlyAccessed ==
    [][(/\ OpStep
        /\ last'.op = "set"
        /\ last'.key \notin DOMAIN store
        /\ Cache_stats(store) = CACHE_MAX_ITEMS)
       => DOMAIN store' =
            ((DOMAIN store) \ {LeastRecentlyAccessed(store, stamp)}) \cup {last'.key}]_vars

\* an insertion evicted an entry although an entry set earlier than it is
\* still there: the survivor was touched by a get in between
C2_Witness ==
    /\ last.op = "set"
    /\ \E e \in last.evicted :
         \E k \in (DOMAIN store) \ {last.key} : store[k].ts < e.ts

\* C3: a get of an entry older than the TTL returns absent and removes the
\* key; no get changes the timestamp of an entry; and only a set makes an
\* absent key present again.
C3_ExpiredIsAbsentAndRemoved ==
    [][OpStep =>
        /\ (/\ last'.op = "get"
            /\ last'.key \in DOMAIN store
            /\ clock - store[last'.key].ts > CACHE_TTL_SECONDS)
           => (last'.ret = None /\ last'.key \notin DOMAIN store')
        /\ last'.op = "get"
           => \A k \in DOMAIN store' : k \in DOMAIN store /\ store'[k].ts = store[k].ts
        /\ \A k \in (DOMAIN store') \ (DOMAIN store) : last'.op = "set" /\ last'.key = k]_vars

\* a get found its entry expired and removed it
C3_Witness ==
    /\ last.op = "get"
    /\ last.ret = None
    /\ \E e \in last.evicted : e.key = last.key /\ clock - e.ts > CACHE_TTL_SECONDS

\* C4: the number of stored entries never exceeds the configured maximum.
C4_SizeBounded == Cache_stats(store) <= CACHE_MAX_ITEMS

\* an insertion into a full cache has just happened
C4_Witness ==
    /\ last.op = "set"
    /\ last.evicted # {}
    /\ Cache_stats(store) = CACHE_MAX_ITEMS

----------------------------------------------------------------------------
(* The cache shared by requests served at the same time.  The endpoints    *)
(* are plain `def` functions, which the server runs on a pool of worker    *)
(* threads; _Cache takes no lock, so the statements of get, set and delete *)
(* of different requests interleave.  One action is one statement: each    *)
(* reads or writes _store or _order at most once.                          *)

\* thread t moves to statement l with its locals changed to loc
Goto(t, l, loc) ==
    /\ tpc' = [tpc EXCEPT ![t] = l]
    /\ tloc' = [tloc EXCEPT ![t] = loc]

\* the statement of thread t raises: the request ends with an error
Raise(t, e) == Goto(t, "idle", [tloc[t] EXCEPT !.exc = e])

\* a request for the text of a PDF arrives: _pdf_to_text_by_pages with
\* use_cache, which calls get(cache_key) and, on a miss, set(cache_key, text)
ReqStart(t) ==
    /\ tpc[t] = "idle"
    /\ nreq < MaxRequests
    /\ nreq' = nreq + 1
    /\ \E key \in Keys : Goto(t, "g_now", [NoLocals EXCEPT !.key = key])
    /\ UNCHANGED <<cacheVars, histVars, httpVars>>

\* time passes
ConcTick ==
    /\ clock < MaxTime
    /\ clock' = clock + 1
    /\ UNCHANGED <<store, order, histVars, concVars, httpVars>>

\* get: now = time.time()
G_now(t) ==
    /\ tpc[t] = "g_now"
    /\ Goto(t, "g_in", [tloc[t] EXCEPT !.now = clock])
    /\ UNCHANGED <<cacheVars, histVars, nreq, httpVars>>

\* get: if key not in self._store: return None
G_in(t) ==
    /\ tpc[t] = "g_in"
    /\ IF tloc[t].key \in DOMAIN store
       THEN Goto(t, "g_read", tloc[t])
       ELSE Goto(t, "s_now", [tloc[t] EXCEPT !.ret = None])
    /\ UNCHANGED <<cacheVars, histVars, nreq, httpVars>>

\* get: ts, val = self._store[key]; if now - ts > self.ttl
G_read(t) ==
    /\ tpc[t] = "g_read"
    /\ IF tloc[t].key \notin DOMAIN store
       THEN Raise(t, "KeyError")
       ELSE LET e == store[tloc[t].key]
                loc == [tloc[t] EXCEPT !.ts = e.ts, !.val = e.val]
            IN  IF loc.now - loc.ts > CACHE_TTL_SECONDS
                THEN Goto(t, "d_in", loc)
                ELSE Goto(t, "g_ord", loc)
    /\ UNCHANGED <<cacheVars, histVars, nreq, httpVars>>

\* delete: if key in self._store
D_in(t) ==
    /\ tpc[t] = "d_in"
    /\ IF tloc[t].key \in DOMAIN store
       THEN Goto(t, "d_del", tloc[t])
       ELSE Goto(t, "d_ord", tloc[t])
    /\ UNCHANGED <<cacheVars, histVars, nreq, httpVars>>

\* delete: del self._store[key]
D_del(t) ==
    /\ tpc[t] = "d_del"
    /\ IF tloc[t].key \in DOMAIN store
       THEN /\ store' = DictDel(store, tloc[t].key)
            /\ Goto(t, "d_ord", tloc[t])
       ELSE /\ Raise(t, "KeyError")
            /\ UNCHANGED store
    /\ UNCHANGED <<order, clock, histVars, nreq, httpVars>>

\* delete: if key in self._order; on return, get returns None
D_ord(t) ==
    /\ tpc[t] = "d_ord"
    /\ IF InList(order, tloc[t].key)
       THEN Goto(t, "d_rm", tloc[t])
       ELSE Goto(t, "s_now", [tloc[t] EXCEPT !.ret = None])
    /\ UNCHANGED <<cacheVars, histVars, nreq, httpVars>>

\* delete: self._order.remove(key); get returns None
D_rm(t) ==
    /\ tpc[t] = "d_rm"
    /\ IF InList(order, tloc[t].key)
       THEN /\ order' = ListRemove(order, tloc[t].key)
            /\ Goto(t, "s_now", [tloc[t] EXCEPT !.ret = None])
       ELSE /\ Raise(t, "ValueError")
            /\ UNCHANGED order
    /\ UNCHANGED <<store, clock, histVars, nreq, httpVars>>

\* get: if key in self._order
G_ord(t) ==
    /\ tpc[t] = "g_ord"
    /\ IF InList(order, tloc[t].key)
       THEN Goto(t, "g_rm", tloc[t])
       ELSE Goto(t, "g_app", tloc[t])
    /\ UNCHANGED <<cacheVars, histVars, nreq, httpVars>>

\* get: self._order.remove(key)
G_rm(t) ==
    /\ tpc[t] = "g_rm"
    /\ IF InList(order, tloc[t].key)
       THEN /\ order' = ListRemove(order, tloc[t].key)
            /\ Goto(t, "g_app", tloc[t])
       ELSE /\ Raise(t, "ValueError")
            /\ UNCHANGED order
    /\ UNCHANGED <<store, clock, histVars, nreq, httpVars>>

\* get: self._order.append(key); return val: the request is served
G_app(t) ==
    /\ tpc[t] = "g_app"
    /\ order' = Append(order, tloc[t].key)
    /\ Goto(t, "idle", [tloc[t] EXCEPT !.ret = tloc[t].val])
    /\ UNCHANGED <<store, clock, histVars, nreq, httpVars>>

\* the exceptions _pdf_to_text_by_pages raises between the miss and the
\* call of set: 404 when the upstream does not answer the download with
\* 200, 400 when the file is not a PDF or the page range is invalid, 500
\* when fitz.open fails or the file has no pages
HttpExceptions == {"HTTPException 404", "HTTPException 400", "HTTPException 500"}

\* after a miss the download or the extraction of the text fails: the
\* request ends without calling set
X_raise(t) ==
    /\ tpc[t] = "s_now"
    /\ \E e \in HttpExceptions : Raise(t, e)
    /\ UNCHANGED <<cacheVars, histVars, nreq, httpVars>>

\* after a miss the text is extracted; set: now = time.time()
S_now(t) ==
    /\ tpc[t] = "s_now"
    /\ Goto(t, "s_in", [tloc[t] EXCEPT !.now = clock, !.val = "v1"])
    /\ UNCHANGED <<cacheVars, histVars, nreq, httpVars>>

\* set: if key in self._store
S_in(t) ==
    /\ tpc[t] = "s_in"
    /\ IF tloc[t].key \in DOMAIN store
       THEN Goto(t, "s_upd", tloc[t])
       ELSE Goto(t, "s_new", tloc[t])
    /\ UNCHANGED <<cacheVars, histVars, nreq, httpVars>>

\* set, key present: self._store[key] = (now, val)
S_upd(t) ==
    /\ tpc[t] = "s_upd"
    /\ store' = DictPut(store, tloc[t].key, [ts |-> tloc[t].now, val |-> tloc[t].val])
    /\ Goto(t, "s_ord", tloc[t])
    /\ UNCHANGED <<order, clock, histVars, nreq, httpVars>>

\* set, key present: if key in self._order
S_ord(t) ==
    /\ tpc[t] = "s_ord"
    /\ IF InList(order, tloc[t].key)
       THEN Goto(t, "s_rm", tloc[t])
       ELSE Goto(t, "s_app", tloc[t])
    /\ UNCHANGED <<cacheVars, histVars, nreq, httpVars>>

\* set, key present: self._order.remove(key)
S_rm(t) ==
    /\ tpc[t] = "s_rm"
    /\ IF InList(order, tloc[t].key)
       THEN /\ order' = ListRemove(order, tloc[t].key)
            /\ Goto(t, "s_app", tloc[t])
       ELSE /\ Raise(t, "ValueError")
            /\ UNCHANGED order
    /\ UNCHANGED <<store, clock, histVars, nreq, httpVars>>

\* set, key present: self._order.append(key); return
S_app(t) ==
    /\ tpc[t] = "s_app"
    /\ order' = Append(order, tloc[t].key)
    /\ Goto(t, "idle", tloc[t])
    /\ UNCHANGED <<store, clock, histVars, nreq, httpVars>>

\* set, new key: self._store[key] = (now, val)
S_new(t) ==
    /\ tpc[t] = "s_new"
    /\ store' = DictPut(store, tloc[t].key, [ts |-> tloc[t].now, val |-> tloc[t].val])
    /\ Goto(t, "s_napp", tloc[t])
    /\ UNCHANGED <<order, clock, histVars, nreq, httpVars>>

\* set, new key: self._order.append(key)
S_napp(t) ==
    /\ tpc[t] = "s_napp"
    /\ order' = Append(order, tloc[t].key)
    /\ Goto(t, "s_while", tloc[t])
    /\ UNCHANGED <<store, clock, histVars, nreq, httpVars>>

\* set, new key: while len(self._order) > self.max_items; else return
S_while(t) ==
    /\ tpc[t] = "s_while"
    /\ IF Len(order) > CACHE_MAX_ITEMS
       THEN Goto(t, "s_pop", tloc[t])
       ELSE Goto(t, "idle", tloc[t])
    /\ UNCHANGED <<cacheVars, histVars, nreq, httpVars>>

\* set, new key: oldest = self._order.pop(0)
S_pop(t) ==
    /\ tpc[t] = "s_pop"
    /\ IF order # << >>
       THEN /\ order' = Tail(order)
            /\ Goto(t, "s_oin", [tloc[t] EXCEPT !.oldest = Head(order)])
       ELSE /\ Raise(t, "IndexError")
            /\ UNCHANGED order
    /\ UNCHANGED <<store, clock, histVars, nreq, httpVars>>

\* set, new key: if oldest in self._store
S_oin(t) ==
    /\ tpc[t] = "s_oin"
    /\ IF tloc[t].oldest \in DOMAIN store
       THEN Goto(t, "s_odel", tloc[t])
       ELSE Goto(t, "s_while", tloc[t])
    /\ UNCHANGED <<cacheVars, histVars, nreq, httpVars>>

\* set, new key: del self._store[oldest]
S_odel(t) ==
    /\ tpc[t] = "s_odel"
    /\ IF tloc[t].oldest \in DOMAIN store
       THEN /\ store' = DictDel(store, tloc[t].oldest)
            /\ Goto(t, "s_while", tloc[t])
       ELSE /\ Raise(t, "KeyError")
            /\ UNCHANGED store
    /\ UNCHANGED <<order, clock, histVars, nreq, httpVars>>

ThreadStep(t) ==
    \/ ReqStart(t)
    \/ G_now(t) \/ G_in(t) \/ G_read(t) \/ G_ord(t) \/ G_rm(t) \/ G_app(t)
    \/ D_in(t) \/ D_del(t) \/ D_ord(t) \/ D_rm(t)
    \/ X_raise(t)
    \/ S_now(t) \/ S_in(t) \/ S_upd(t) \/ S_ord(t) \/ S_rm(t) \/ S_app(t)
    \/ S_new(t) \/ S_napp(t) \/ S_while(t) \/ S_pop(t) \/ S_oin(t) \/ S_odel(t)

NextConc == ConcTick \/ \E t \in Threads : ThreadStep(t)

SpecConc == Init /\ [][NextConc]_vars

\* _order holds no key twice
NoDuplicates(ord) == \A i, j \in 1..Len(ord) : ord[i] = ord[j] => i = j

\* _store and _order hold the same keys, each once in _order
Consistent(st, ord) == NoDuplicates(ord) /\ {ord[i] : i \in 1..Len(ord)} = DOMAIN st

\* C5: with requests served at the same time, each cache operation takes
\* effect atomically: whenever no operation is under way the key map and
\* the access-order list are consistent, and no operation has failed because
\* another request changed the map or the list under it.
C5_AtomicUnderConcurrency ==
    /\ \A t \in Threads : tloc[t].exc \in {""} \cup HttpExceptions
    /\ (\A t \in Threads : tpc[t] = "idle") => Consistent(store, order)

----------------------------------------------------------------------------
(* The handlers of GET /search, GET /items/{item_key} and POST /items/batch *)
(* serving one request.  One action is one upstream call together with the *)
(* handler's code up to the next call.                                      *)

\* the library of exactly 250 top-level records: pages of 100, 100 and 50
Lib250 == [nchild |-> 0, nbulk |-> 2 * chunk + 50, tail |-> << >>, endless |-> FALSE]

\* an upstream that never returns an empty page
EndlessLib == [nchild |-> 0, nbulk |-> 0, tail |-> << >>, endless |-> TRUE]

\* libraries the requests are served from: empty or one page of child
\* records first, then either a run of top-level records or up to MaxTail
\* arbitrary top-level records
TailSeqs == UNION {[1..n -> TailRecs] : n \in 0..MaxTail}
Libraries ==
    {[nchild |-> c, nbulk |-> b, tail |-> << >>, endless |-> FALSE] :
        c \in {0, chunk}, b \in {chunk, 2 * chunk + 50}}
    \cup {[nchild |-> c, nbulk |-> 0, tail |-> t, endless |-> FALSE] :
        c \in {0, chunk}, t \in TailSeqs}
    \cup {EndlessLib}

\* the upstream answers a call with `status` and `body`: the call is logged,
\* and so is the first call answered with a non-2xx status
UpCall(u, kind, start, status, body) ==
    [u EXCEPT !.ncalls = @ + 1,
              !.pages = IF kind = "list" THEN Append(@, start) ELSE @,
              !.npdf = IF kind = "pdf" THEN @ + 1 ELSE @,
              !.failAt = IF @ = 0 /\ Non2xx(status) THEN u.ncalls + 1 ELSE @,
              !.failStatus = IF u.failAt = 0 /\ Non2xx(status) THEN status ELSE @,
              !.failBody = IF u.failAt = 0 /\ Non2xx(status) THEN body ELSE @]

\* raise HTTPException(status_code=r.status_code, detail=r.text)
HttpError(status, body) == [status |-> status, detail |-> body]

\* GET /search arrives; limit and max_scan are clamped (the endless library
\* is scanned under the smallest ceiling only)
SearchRequest ==
    /\ hpc = "idle"
    /\ \E l \in Libraries, has_pdf \in BOOLEAN, has_notes \in BOOLEAN, free \in BOOLEAN,
          limit \in {0, 2}, max_scan \in {1, 1000} :
         /\ l.endless => max_scan = 1
         /\ lib' = l
         /\ req' = [endpoint |-> "search", has_pdf |-> has_pdf, has_notes |-> has_notes,
                    free |-> free,
                    limit |-> Max(LimitMin, Min(LimitMax, limit)),
                    max_scan |-> Max(MaxScanMin, Min(MaxScanMax, max_scan))]
    /\ hpc' = "page"
    /\ UNCHANGED <<scan, bat, up, resp, pdf, cacheVars, histVars, concVars>>

\* the end of faceted_search: sort, cut to limit, return
SearchReturn(sc) ==
    /\ resp' = [status |-> 200, scanned |-> sc.scanned,
                results |-> Results(sc.candidates, req.limit)]
    /\ hpc' = "done"

\* the end of one pass of `for it in batch`, and of the batch
Advance(sc) ==
    IF sc.idx < Len(sc.batch)
    THEN /\ scan' = [sc EXCEPT !.idx = @ + 1]
         /\ hpc' = "item"
    ELSE /\ scan' = [sc EXCEPT !.scanned = NextScanned(sc), !.start = NextStart(sc),
                               !.batch = << >>, !.idx = 0]
         /\ hpc' = "page"

\* candidates.append(...) for the current record, then the next record
AppendAndAdvance ==
    Advance([scan EXCEPT !.candidates = @ \o Candidate(scan.batch[scan.idx], req.free)])

\* `while scanned < max_scan`: batch = list_items(limit=chunk, start=start);
\* list_items raises on a status other than 200, and otherwise returns the
\* top-level records of the page
SearchList ==
    /\ hpc = "page"
    /\ scan.scanned < req.max_scan
    /\ \/ \E status \in {st \in Statuses : NotOk(st)}, body \in Bodies :
            /\ up' = UpCall(up, "list", scan.start, status, body)
            /\ resp' = HttpError(status, body)
            /\ hpc' = "failed"
            /\ UNCHANGED scan
       \/ \E status \in {st \in Statuses : ~NotOk(st)}, body \in Bodies :
            /\ up' = UpCall(up, "list", scan.start, status, body)
            /\ LET batch == ListItems(lib, chunk, scan.start)
               IN  IF batch = << >>
                   THEN /\ SearchReturn(scan)
                        /\ UNCHANGED scan
                   ELSE /\ scan' = [scan EXCEPT !.batch = batch, !.idx = 1]
                        /\ hpc' = "item"
                        /\ UNCHANGED resp
    /\ UNCHANGED <<lib, req, bat, pdf, cacheVars, histVars, concVars>>

\* `while scanned < max_scan` is false: the scan ceiling is reached
SearchCeiling ==
    /\ hpc = "page"
    /\ scan.scanned >= req.max_scan
    /\ SearchReturn(scan)
    /\ UNCHANGED <<lib, req, scan, bat, up, pdf, cacheVars, histVars, concVars>>

\* one record of the batch: the filters, up to the first upstream call
SearchItem ==
    /\ hpc = "item"
    /\ IF ~scan.batch[scan.idx].pass
       THEN Advance(scan)
       ELSE IF req.has_notes
       THEN hpc' = "notes" /\ UNCHANGED scan
       ELSE IF req.has_pdf
       THEN hpc' = "pdf" /\ UNCHANGED scan
       ELSE AppendAndAdvance
    /\ UNCHANGED <<lib, req, bat, up, resp, pdf, cacheVars, histVars, concVars>>

\* has_notes: _get_notes_for_item(key), a children lookup
SearchNotes ==
    /\ hpc = "notes"
    /\ \E status \in Statuses, body \in Bodies :
         /\ up' = UpCall(up, "notes", 0, status, body)
         /\ IF NotOk(status)
            THEN /\ resp' = HttpError(status, body)
                 /\ hpc' = "failed"
                 /\ UNCHANGED scan
            ELSE /\ UNCHANGED resp
                 /\ IF req.has_pdf
                    THEN hpc' = "pdf" /\ UNCHANGED scan
                    ELSE AppendAndAdvance
    /\ UNCHANGED <<lib, req, bat, pdf, cacheVars, histVars, concVars>>

\* has_pdf: _pdf_attachment_keys(key), a children lookup; a record without
\* a PDF attachment is skipped
SearchPdf ==
    /\ hpc = "pdf"
    /\ \E status \in Statuses, body \in Bodies :
         /\ up' = UpCall(up, "pdf", 0, status, body)
         /\ IF NotOk(status)
            THEN /\ resp' = HttpError(status, body)
                 /\ hpc' = "failed"
                 /\ UNCHANGED scan
            ELSE /\ UNCHANGED resp
                 /\ IF scan.batch[scan.idx].pdf
                    THEN AppendAndAdvance
                    ELSE Advance(scan)
    /\ UNCHANGED <<lib, req, bat, pdf, cacheVars, histVars, concVars>>

\* GET /items/{item_key} arrives
ItemRequest ==
    /\ hpc = "idle"
    /\ \E key \in 1..MaxBatchKeys : req' = [endpoint |-> "item", item_key |-> key]
    /\ hpc' = "details"
    /\ UNCHANGED <<lib, scan, bat, up, resp, pdf, cacheVars, histVars, concVars>>

\* get_item_details: one upstream call
ItemDetails ==
    /\ hpc = "details"
    /\ \E status \in Statuses, body \in Bodies :
         /\ up' = UpCall(up, "item", 0, status, body)
         /\ IF NotOk(status)
            THEN resp' = HttpError(status, body) /\ hpc' = "failed"
            ELSE resp' = [status |-> 200, item |-> req.item_key] /\ hpc' = "done"
    /\ UNCHANGED <<lib, req, scan, bat, pdf, cacheVars, histVars, concVars>>

\* the item_keys of a payload: a list of up to MaxBatchKeys keys
BatchPayloads == UNION {[1..n -> 1..MaxBatchKeys] : n \in 0..MaxBatchKeys}

\* item_keys[:50]
BatchKeys(item_keys) == SubSeq(item_keys, 1, Min(Len(item_keys), BatchMax))

\* POST /items/batch arrives: item_keys must be a list
BatchRequest ==
    /\ hpc = "idle"
    /\ \/ /\ req' = [endpoint |-> "batch", is_list |-> FALSE, item_keys |-> << >>]
          /\ resp' = [status |-> 400, detail |-> "item_keys must be a list of strings"]
          /\ hpc' = "failed"
          /\ UNCHANGED bat
       \/ \E keys \in BatchPayloads :
            /\ req' = [endpoint |-> "batch", is_list |-> TRUE, item_keys |-> keys]
            /\ IF BatchKeys(keys) = << >>
               THEN /\ resp' = [status |-> 200, count |-> 0, results |-> << >>]
                    /\ hpc' = "done"
                    /\ UNCHANGED bat
               ELSE /\ bat' = [i |-> 1, stage |-> "details", results |-> << >>]
                    /\ hpc' = "b_call"
                    /\ UNCHANGED resp
    /\ UNCHANGED <<lib, scan, up, pdf, cacheVars, histVars, concVars>>

\* the end of one pass of `for k in item_keys[:50]` with entry e appended
BatchNext(e) ==
    LET results == Append(bat.results, e)
    IN  IF bat.i < Len(BatchKeys(req.item_keys))
        THEN /\ bat' = [i |-> bat.i + 1, stage |-> "details", results |-> results]
             /\ hpc' = "b_call"
             /\ UNCHANGED resp
        ELSE /\ bat' = [bat EXCEPT !.results = results]
             /\ resp' = [status |-> 200, count |-> Len(results), results |-> results]
             /\ hpc' = "done"

\* one upstream call of the try block of batch_items: get_item_details,
\* _pdf_attachment_keys, _get_notes_for_item; `except Exception` turns a
\* failed call into an error entry and the loop goes on
BatchCall ==
    /\ hpc = "b_call"
    /\ \E status \in Statuses, body \in Bodies :
         /\ up' = UpCall(up, bat.stage, 0, status, body)
         /\ IF NotOk(status)
            THEN BatchNext([item_key |-> req.item_keys[bat.i], error |-> "Failed to fetch item"])
            ELSE IF bat.stage = "details"
            THEN bat' = [bat EXCEPT !.stage = "pdfs"] /\ UNCHANGED <<hpc, resp>>
            ELSE IF bat.stage = "pdfs"
            THEN bat' = [bat EXCEPT !.stage = "notes"] /\ UNCHANGED <<hpc, resp>>
            ELSE BatchNext([item_key |-> req.item_keys[bat.i], error |-> ""])
    /\ UNCHANGED <<lib, req, scan, pdf, cacheVars, histVars, concVars>>

NextHttp ==
    \/ SearchRequest \/ SearchList \/ SearchCeiling \/ SearchItem \/ SearchNotes \/ SearchPdf
    \/ ItemRequest \/ ItemDetails
    \/ BatchRequest \/ BatchCall

SpecHttp == Init /\ [][NextHttp]_vars

\* a request that can take a step takes it: the handler runs to its end and
\* every upstream call returns a response
SpecHttpLive == SpecHttp /\ WF_vars(NextHttp)

----------------------------------------------------------------------------
(* GET /attachments/{key}/search: one request, served from start to end.   *)

\* texts of a page, and the files of the attachment: up to MaxPages pages
PageTexts ==
    { << >>,
      <<"a", "b">>,
      <<"A", "B", " ", "a", "b">>,
      <<"b", " ", "a">> }
Documents == UNION {[1..n -> PageTexts] : n \in 0..MaxPages}

\* values of the query parameter phrase: empty, blank, and words with and
\* without surrounding blanks
Phrases == { << >>, <<" ">>, <<"a", "b">>, <<" ", "a", "B", " ">>, <<"a">> }

\* Page.search_for belongs to PyMuPDF.  It finds the phrase on the pages
\* whose text holds it; the number of rectangles it returns for such a page
\* need not be the number of matches re.finditer finds there (a match that
\* wraps a line gives a rectangle per line, adjacent matches give one
\* rectangle): any number from 1 to one more than the matches.
RECURSIVE RectCounts(_, _, _)
RectCounts(pages, phrase, n) ==
    IF n = 0 THEN {<< >>}
    ELSE LET m == Len(Finditer(pages[n], phrase, 1))
         IN  {Append(rc, k) : rc \in RectCounts(pages, phrase, n - 1),
                              k \in IF m = 0 THEN {0} ELSE 1..(m + 1)}

\* the request arrives; search_in_pdf passes its parameters on as they are
PdfRequest ==
    /\ hpc = "idle"
    /\ \E d \in Documents, phrase \in Phrases, max_pages \in {MaxPages - 1, 120},
          max_hits \in {1, 20}, context_chars \in {-3, -1, 0, 1}, use_cache \in BOOLEAN :
         /\ pdf' = [pages |-> d, rects |-> << >>]
         /\ req' = [endpoint |-> "pdfsearch", attachment_key |-> 1, phrase |-> phrase,
                    max_pages |-> max_pages, max_hits |-> max_hits,
                    context_chars |-> context_chars, use_cache |-> use_cache]
    /\ hpc' = "phrase"
    /\ UNCHANGED <<lib, scan, bat, up, resp, cacheVars, histVars, concVars>>

\* phrase_clean = (phrase or "").strip(); an empty one is answered at once
PdfPhrase ==
    /\ hpc = "phrase"
    /\ IF Strip(req.phrase) = << >>
       THEN /\ resp' = [status |-> 200, phrase |-> req.phrase, hits |-> << >>]
            /\ hpc' = "done"
       ELSE /\ hpc' = "download"
            /\ UNCHANGED resp
    /\ UNCHANGED <<lib, req, scan, bat, up, pdf, cacheVars, histVars, concVars>>

\* _download_pdf_bytes and fitz.open: the file is fetched, checked to be a
\* PDF and opened
PdfDownload ==
    /\ hpc = "download"
    /\ \E status \in Statuses, body \in Bodies, ctype \in {"application/pdf", "text/html"},
          opens \in BOOLEAN :
         /\ up' = UpCall(up, "file", 0, status, body)
         /\ IF NotOk(status)
            THEN /\ resp' = HttpError(404, "PDF not found in Zotero Storage")
                 /\ hpc' = "failed"
            ELSE IF ctype # "application/pdf"
            THEN /\ resp' = HttpError(400, "Attachment is not a PDF")
                 /\ hpc' = "failed"
            ELSE IF ~opens
            THEN /\ resp' = HttpError(500, "Failed to open PDF")
                 /\ hpc' = "failed"
            ELSE /\ hpc' = "search"
                 /\ UNCHANGED resp
    /\ UNCHANGED <<lib, req, scan, bat, pdf, cacheVars, histVars, concVars>>

\* the rest of _pdf_find_phrase: the coarse text (from the cache or from the
\* pages), the hits, their pages, the response
PdfSearch ==
    /\ hpc = "search"
    /\ LET phrase_clean == Strip(req.phrase)
           total_pages == Len(pdf.pages)
           pages_to_scan == Min(total_pages, req.max_pages)
           coarse_cache_key == <<"pdfcoarse", req.attachment_key, 1, pages_to_scan>>
           got == Cache_get(store, order, coarse_cache_key, clock)
           cached == req.use_cache /\ got.ret # None
           coarse_text == IF cached THEN got.ret
                          ELSE Join(SubSeq(pdf.pages, 1, Max(0, pages_to_scan)))
           st1 == IF req.use_cache THEN got.store ELSE store
           ord1 == IF req.use_cache THEN got.order ELSE order
           put == Cache_set(st1, ord1, coarse_cache_key, coarse_text, clock)
           hits == CoarseHits(coarse_text, phrase_clean, req.max_hits, req.context_chars)
       IN  /\ store' = IF req.use_cache /\ ~cached THEN put.store ELSE st1
           /\ order' = IF req.use_cache /\ ~cached THEN put.order ELSE ord1
           /\ \E rects \in IF Len(hits) > 0
                          THEN RectCounts(pdf.pages, phrase_clean, Max(0, pages_to_scan))
                          ELSE {<< >>} :
                /\ pdf' = [pdf EXCEPT !.rects = rects]
                /\ resp' = [status |-> 200, phrase |-> phrase_clean,
                            pages_scanned |-> pages_to_scan, total_pages |-> total_pages,
                            hits |-> IF Len(hits) > 0
                                     THEN Enrich(hits, rects, Max(0, pages_to_scan))
                                     ELSE hits]
    /\ hpc' = "done"
    /\ UNCHANGED <<lib, req, scan, bat, up, clock, histVars, concVars>>

NextPdf == PdfRequest \/ PdfPhrase \/ PdfDownload \/ PdfSearch

SpecPdf == Init /\ [][NextPdf]_vars

----------------------------------------------------------------------------
(* The handlers: claims C6-C10. *)

\* every page request made so far is at the offset (number of the request
\* - 1) * page size
OffsetsAdvanceByChunk == \A i \in 1..Len(up.pages) : up.pages[i] = (i - 1) * chunk

CompletedScanOf250 ==
    /\ req.endpoint = "search"
    /\ hpc = "done"
    /\ lib = Lib250
    /\ req.max_scan = 1000

\* C6 as stated: over 250 top-level records with ceiling 1000 the scan
\* requests the pages at 0, 100 and 200 and no further page, and reports 250;
\* the offset advances by the page size on each iteration.
C6_Original ==
    /\ OffsetsAdvanceByChunk
    /\ CompletedScanOf250 => (up.pages = <<0, 100, 200>> /\ resp.scanned = 250)

\* C6 as amended: the scan requests the pages at 0, 100 and 200 and then one
\* more page, at 300, whose empty answer ends it; it reports 250; the offset
\* advances by the page size on each iteration.
C6_ScanEndsOnEmptyPage ==
    /\ OffsetsAdvanceByChunk
    /\ CompletedScanOf250 => (up.pages = <<0, 100, 200, 300>> /\ resp.scanned = 250)

\* the scan of the 250 records has completed, children lookups included
C6_Witness == CompletedScanOf250 /\ req.has_pdf /\ Len(up.pages) = 4

\* C7: once an upstream call of a scan (a page listing or a children lookup)
\* is answered with a non-2xx status, that call is the last one made, the
\* request has failed with the upstream's status code and body, and no
\* result list is returned.
C7_UpstreamErrorAbortsScan ==
    (req.endpoint = "search" /\ up.failAt # 0)
    => /\ hpc = "failed"
       /\ up.ncalls = up.failAt
       /\ resp = [status |-> up.failStatus, detail |-> up.failBody]

\* a children lookup failed after the scan had already kept a candidate
C7_Witness ==
    /\ req.endpoint = "search"
    /\ hpc = "failed"
    /\ up.failAt > 1
    /\ up.npdf >= 1
    /\ scan.candidates # << >>
    /\ Len(up.pages) = 1

\* C8: on every endpoint, after an upstream call has failed no further
\* upstream call is made and no response with a success status is produced.
C8_NoEndpointSwallowsFailure ==
    up.failAt # 0
    => /\ up.ncalls = up.failAt
       /\ hpc = "done" => (resp.status < 200 \/ resp.status > 299)

\* C9: when a PDF is required, at most pdf_check_top_n candidates have their
\* children fetched to look for a PDF attachment.
C9_PdfChecksCapped ==
    (req.endpoint = "search" /\ req.has_pdf) => up.npdf <= pdf_check_top_n

SearchDone == req.endpoint = "search" /\ hpc = "done"

\* C10 as stated: results are in descending score, equal scores in scan
\* order (the keys of the library grow along the scan).
C10_Original ==
    SearchDone =>
        \A p, q \in 1..Len(resp.results) :
            p < q => LET a == resp.results[p]
                         b == resp.results[q]
                     IN  a.score > b.score \/ (a.score = b.score /\ a.key < b.key)

\* C10 as amended: results are in descending score, equal scores in
\* descending title, and equal score and title in scan order.
C10_OrderedByScoreThenTitle ==
    SearchDone =>
        \A p, q \in 1..Len(resp.results) :
            p < q => LET a == resp.results[p]
                         b == resp.results[q]
                     IN  \/ a.score > b.score
                         \/ (a.score = b.score /\ a.title > b.title)
                         \/ (a.score = b.score /\ a.title = b.title /\ a.key < b.key)

\* two results of equal score of which the one scanned later comes first,
\* and two of equal score and title
C10_Witness ==
    /\ SearchDone
    /\ \E p, q \in 1..Len(resp.results) :
         /\ p < q
         /\ resp.results[p].score = resp.results[q].score
         /\ resp.results[p].key > resp.results[q].key
    /\ lib.tail # << >>

----------------------------------------------------------------------------
(* The access-order list and the stored map of the sequentially used       *)
(* cache.                                                                  *)

\* C15: in sequential use, after any sequence of get/set/delete calls the
\* access-order list has no duplicate keys and lists exactly the keys of the
\* stored map.
C15_OrderMatchesStore == Consistent(store, order)

\* a delete has just removed one of two stored entries
C15_Witness ==
    /\ last.op = "delete"
    /\ last.evicted # {}
    /\ Len(order) = 1
    /\ order[1] \in DOMAIN store
    /\ order[1] # last.key

----------------------------------------------------------------------------
(* The scan of /search over pages that hold child records.                 *)

\* C13: the /search scan ends only when the upstream itself returns an empty
\* page or the scan ceiling is reached; a non-empty upstream page that holds
\* only child records does not end it.
C13_ScanEndsOnlyOnEmptyUpstreamPageOrCeiling ==
    (SearchDone /\ resp.status = 200) =>
        \/ resp.scanned >= req.max_scan
        \/ /\ up.pages # << >>
           /\ UpstreamPage(lib, up.pages[Len(up.pages)], chunk) = << >>

----------------------------------------------------------------------------
(* Termination of the scan of /search.                                     *)

\* C14: whatever the upstream answers, one that never returns an empty page
\* included, the scan loop of /search ends, and it issues at most max_scan
\* page requests, max_scan being the caller's value clamped to 100..10000.
C14_ScanTerminatesWithinCeiling ==
    /\ [](req.endpoint = "search" =>
            /\ req.max_scan \in MaxScanMin..MaxScanMax
            /\ Len(up.pages) <= req.max_scan)
    /\ (req.endpoint = "search") ~> (hpc \in {"done", "failed"})

\* a scan of the endless library has ended at the ceiling, after max_scan
\* page requests
C14_Witness ==
    /\ SearchDone
    /\ lib.endless
    /\ resp.status = 200
    /\ Len(up.pages) = req.max_scan

----------------------------------------------------------------------------
(* Phrase search: the empty phrase, and the hits of a phrase found in the  *)
(* file.                                                                   *)

\* C11: phrase search fails with HTTP 400 whenever the phrase is empty after
\* trimming, before any upstream download; it never answers such a phrase
\* with a success and an empty hit list.
C11_EmptyPhraseIsInvalidArgument ==
    (req.endpoint = "pdfsearch" /\ hpc \in {"done", "failed"} /\ Strip(req.phrase) = << >>) =>
        /\ resp.status = 400
        /\ up.ncalls = 0

\* a phrase search that ran to its response
PdfAnswered == req.endpoint = "pdfsearch" /\ hpc = "done" /\ Strip(req.phrase) # << >>

\* the scanned pages, the number of occurrences of the phrase on a page and
\* on the pages up to it, and the page of the i-th occurrence of the file
PagesScanned == Min(Len(pdf.pages), req.max_pages)
ScannedPages == 1..PagesScanned
Occurrences(p) == Len(Finditer(pdf.pages[p], Strip(req.phrase), 1))
RECURSIVE OccurrencesUpTo(_)
OccurrencesUpTo(p) == IF p = 0 THEN 0 ELSE OccurrencesUpTo(p - 1) + Occurrences(p)
PageOfOccurrence(i) ==
    CHOOSE p \in ScannedPages : OccurrencesUpTo(p - 1) < i /\ i <= OccurrencesUpTo(p)

ContainsPhrase(text, phrase) == \E p \in 1..Len(text) : MatchAt(text, phrase, p)

\* one hit per occurrence on the scanned pages, at most max_hits
HitPerOccurrence ==
    Len(resp.hits) = Min(req.max_hits, OccurrencesUpTo(PagesScanned))

\* every hit has a non-empty context that contains the phrase
ContextsHoldPhrase ==
    \A i \in 1..Len(resp.hits) :
        /\ resp.hits[i].context # << >>
        /\ ContainsPhrase(resp.hits[i].context, Strip(req.phrase))

\* search_for returned, for every scanned page, as many rectangles as the
\* page has occurrences
RectanglesAgree ==
    \A p \in ScannedPages : p \in DOMAIN pdf.rects /\ pdf.rects[p] = Occurrences(p)

\* C12 as claimed: one hit per occurrence, and every hit's page is the page
\* of its occurrence (so the pages ascend).
C12_Original ==
    PdfAnswered =>
        /\ HitPerOccurrence
        /\ ContextsHoldPhrase
        /\ \A i \in 1..Len(resp.hits) : resp.hits[i].page = PageOfOccurrence(i)

\* C12: phrase search returns one hit per occurrence on the scanned pages, at
\* most max_hits; when context_chars is not negative, every hit has a
\* non-empty context that contains the phrase case-insensitively (a negative
\* context_chars cuts the window inside the match, and the context may be
\* empty or lack the phrase); the hits that carry a page come first, their pages
\* are scanned pages in ascending order, the other hits carry no page; and
\* when search_for returns one rectangle per occurrence, every hit's page is
\* the page of its occurrence.
C12_HitsAndBestEffortPages ==
    PdfAnswered =>
        /\ HitPerOccurrence
        /\ req.context_chars >= 0 => ContextsHoldPhrase
        /\ \A i, j \in 1..Len(resp.hits) :
             (i < j /\ resp.hits[j].page # NoPage) =>
                 /\ resp.hits[i].page # NoPage
                 /\ resp.hits[i].page <= resp.hits[j].page
        /\ \A i \in 1..Len(resp.hits) :
             resp.hits[i].page # NoPage => resp.hits[i].page \in ScannedPages
        /\ RectanglesAgree =>
             \A i \in 1..Len(resp.hits) : resp.hits[i].page = PageOfOccurrence(i)

\* the phrase occurs once on page 2 and once on page 3 and nowhere else:
\* two hits, on pages 2 and 3
C12_Witness ==
    /\ PdfAnswered
    /\ req.context_chars >= 0
    /\ ContextsHoldPhrase
    /\ Len(pdf.pages) = 3
    /\ PagesScanned = 3
    /\ RectanglesAgree
    /\ Occurrences(1) = 0 /\ Occurrences(2) = 1 /\ Occurrences(3) = 1
    /\ Len(resp.hits) = 2
    /\ resp.hits[1].page = 2 /\ resp.hits[2].page = 3

\* a negative context_chars has left a hit whose context is empty or lacks
\* the phrase
C12_NegativeContextWitness ==
    /\ PdfAnswered
    /\ req.context_chars < 0
    /\ Len(resp.hits) > 0
    /\ ~ContextsHoldPhrase

====
